---- MODULE Spec2Model ----
(***************************************************************************)
(* The 8-bit virtual machine of shit-cpu-emu (src/src/main.rs) and its     *)
(* assembler front end (src/assembler/src).                                *)
(*                                                                         *)
(* A state of the emulator is one process: the program bytes read from the *)
(* file, the Machine (pc, acc, memory), the lines written by `print`, and  *)
(* how the process ended.  One action models one iteration of the loop of  *)
(* Machine::run, for one arm of its match.  Specification: Spec.           *)
(*                                                                         *)
(* A state of the assembler is one call of parse::parse: the source text,  *)
(* how many lines the iterator has consumed, what the closure made of the  *)
(* last line, the Program lines collected, the error flag and the          *)
(* diagnostics emitted.  Specification: AsmSpec.                           *)
(***************************************************************************)
EXTENDS Integers, Sequences, FiniteSets

VARIABLES
    program,    \* the Vec<u8> handed to Machine::from_program
    status,     \* "start" | "running" | "stopped" | "panicked"
    pc,         \* Machine.pc
    acc,        \* Machine.acc
    memory,     \* Machine.memory, a function on 0..255 (<< >> before construction)
    output,     \* the most recent lines written to stdout by run, oldest first
    panic,      \* the panic that ended the process, NoPanic while there is none
    input,      \* parse's input: &str, as a sequence of characters
    parse_state,\* "idle" | "parsing" | "Ok" | "Err": where the call of parse is
    line_number,\* how many lines input.lines().enumerate() has yielded
    tokens,     \* tokenize(line) for the line yielded last
    parsed,     \* tokenize(line).and_then(parse_line) for the line yielded last
    lines,      \* the Spanned<Line> entries collected so far
    error,      \* parse's local `error`
    emitted     \* the diagnostics passed to Diag::emit, oldest first

\* the emulator's variables and the assembler's
vm_vars == <<program, status, pc, acc, memory, output, panic>>

asm_vars == <<input, parse_state, line_number, tokens, parsed, lines, error,
              emitted>>

vars == <<vm_vars, asm_vars>>

(***************************************************************************)
(* Bounds of the model.                                                    *)
(***************************************************************************)
\* how many of the most recent output lines the model keeps
MaxOutput == 2
\* the longest length byte tried in the print programs
MaxStrLen == 3
\* how many bytes beyond the memory size the over-long programs have
MaxExcess == 1

(***************************************************************************)
(* u8 arithmetic and the memory.                                           *)
(***************************************************************************)
MACHINE_MEMORY_SIZE == 256

wrapping_add(a, b) == (a + b) % 256

wrapping_sub(a, b) == (a - b + 256) % 256

\* u8 >> 1
shr1(a) == a \div 2

\* u8 << 1: the bit shifted out of the byte is dropped
shl1(a) == (a * 2) % 256

\* u8 & u8, bit by bit from the least significant one
RECURSIVE bitand_bits(_, _, _)
bitand_bits(a, b, n) ==
    IF n = 0 THEN 0
    ELSE (IF a % 2 = 1 /\ b % 2 = 1 THEN 1 ELSE 0)
         + 2 * bitand_bits(a \div 2, b \div 2, n - 1)

bitand(a, b) == bitand_bits(a, b, 8)

\* the memory before a Machine exists
NoMemory == << >>

\* args are the values the panic message is formatted with
NoPanic == [kind |-> "none", args |-> << >>]

\* Memory::from_program once its assertion has passed: the program copied to the
\* low end of a zeroed array
Memory_from_program(prog) ==
    [i \in 0 .. MACHINE_MEMORY_SIZE - 1 |->
        IF i < Len(prog) THEN prog[i + 1] ELSE 0]

\* a variant of the assertion with < for <=
from_program_assert_strict(prog) == Len(prog) < MACHINE_MEMORY_SIZE

\* the assertion of Memory::from_program
from_program_assert(prog) == Len(prog) <= MACHINE_MEMORY_SIZE

\* Index<RangeInclusive<u8>> for Memory: self.0[start..=end] is the range
\* start..end+1 of the array, which the slice index accepts only if
\* start <= end + 1 (end + 1 <= 256 always holds for a u8 end)
slice_in_order(start, end) == start <= end + 1

\* a variant of memory_range for the half-open range start..end
memory_range_exclusive(mem, start, end) ==
    [i \in 1 .. (end - start) |-> mem[start + i - 1]]

\* the bytes of self.0[start..=end], as a sequence
memory_range(mem, start, end) ==
    [i \in 1 .. (end + 1 - start) |-> mem[start + i - 1]]

(***************************************************************************)
(* String::from_utf8_lossy, on bytes and giving the bytes of the resulting *)
(* String: the valid UTF-8 sequences are kept and every maximal invalid    *)
(* sequence becomes U+FFFD (EF BF BD).                                     *)
(***************************************************************************)
REPLACEMENT == <<239, 191, 189>>

utf8_char_width(b) ==
    IF b < 128 THEN 1
    ELSE IF b >= 194 /\ b <= 223 THEN 2
    ELSE IF b >= 224 /\ b <= 239 THEN 3
    ELSE IF b >= 240 /\ b <= 244 THEN 4
    ELSE 0

\* the byte at i, 0 past the end
safe_get(s, i) == IF i <= Len(s) THEN s[i] ELSE 0

is_cont(b) == b >= 128 /\ b <= 191

\* may b2 follow the lead byte b1 of a 3- or 4-byte sequence
second_ok(b1, b2) ==
    IF b1 = 224 THEN b2 >= 160 /\ b2 <= 191
    ELSE IF b1 = 237 THEN b2 >= 128 /\ b2 <= 159
    ELSE IF b1 = 240 THEN b2 >= 144 /\ b2 <= 191
    ELSE IF b1 = 244 THEN b2 >= 128 /\ b2 <= 143
    ELSE is_cont(b2)

\* the sequence starting at s[i]: whether it is valid and how many bytes it
\* takes (for an invalid one, the bytes that are replaced together)
utf8_next(s, i) ==
    LET w == utf8_char_width(s[i]) IN
    IF w = 1 THEN [valid |-> TRUE, n |-> 1]
    ELSE IF w = 0 THEN [valid |-> FALSE, n |-> 1]
    ELSE IF w = 2 THEN
        IF is_cont(safe_get(s, i + 1)) THEN [valid |-> TRUE, n |-> 2]
        ELSE [valid |-> FALSE, n |-> 1]
    ELSE IF ~second_ok(s[i], safe_get(s, i + 1)) THEN [valid |-> FALSE, n |-> 1]
    ELSE IF ~is_cont(safe_get(s, i + 2)) THEN [valid |-> FALSE, n |-> 2]
    ELSE IF w = 3 THEN [valid |-> TRUE, n |-> 3]
    ELSE IF ~is_cont(safe_get(s, i + 3)) THEN [valid |-> FALSE, n |-> 3]
    ELSE [valid |-> TRUE, n |-> 4]

\* Does a sequence (valid or invalid) start at s[i]?  A sequence takes, after
\* its first byte, continuation bytes only, so a byte that is no continuation
\* byte always starts one, and a continuation byte starts one (an invalid
\* sequence of its own) unless the sequence of the nearest earlier byte that
\* is no continuation byte reaches it.
starts_sequence(s, i) ==
    \/ ~is_cont(s[i])
    \/ LET leads == {j \in (i - 3) .. (i - 1) : j >= 1 /\ ~is_cont(s[j])} IN
       \/ leads = {}
       \/ LET j == CHOOSE k \in leads : \A l \in leads : l <= k IN
          j + utf8_next(s, j).n <= i

\* what the sequence starting at s[i] contributes to the String
lossy_piece(s, i) ==
    IF ~starts_sequence(s, i) THEN << >>
    ELSE LET r == utf8_next(s, i) IN
         IF r.valid THEN SubSeq(s, i, i + r.n - 1) ELSE REPLACEMENT

\* the pieces of the sequences that start at lo .. hi, one after the other
RECURSIVE concat_pieces(_, _, _)
concat_pieces(s, lo, hi) ==
    IF lo > hi THEN << >>
    ELSE IF lo = hi THEN lossy_piece(s, lo)
    ELSE LET mid == (lo + hi) \div 2 IN
         concat_pieces(s, lo, mid) \o concat_pieces(s, mid + 1, hi)

from_utf8_lossy(s) == concat_pieces(s, 1, Len(s))

LF == <<10>>

\* println!("{}", text): one more line on stdout; the model keeps the last
\* MaxOutput lines
println(out, text) ==
    LET all == Append(out, text \o LF) IN
    IF Len(all) > MaxOutput THEN Tail(all) ELSE all

(***************************************************************************)
(* The opcode table of the assembler (instr.rs).                           *)
(***************************************************************************)
Opcode ==
    {"Nop", "Ld", "Ldi", "St", "Sti", "Mov", "Jmp", "Jz", "Add", "Addi",
     "Sub", "Subi", "Shr", "Shl", "And", "Andi", "Print", "Stop"}

Opcode_to_byte(op) ==
    CASE op = "Nop" -> 0
      [] op = "Ld" -> 16
      [] op = "Ldi" -> 17
      [] op = "St" -> 18
      [] op = "Sti" -> 19
      [] op = "Mov" -> 20
      [] op = "Jmp" -> 32
      [] op = "Jz" -> 33
      [] op = "Add" -> 48
      [] op = "Addi" -> 49
      [] op = "Sub" -> 50
      [] op = "Subi" -> 51
      [] op = "Shr" -> 52
      [] op = "Shl" -> 53
      [] op = "And" -> 54
      [] op = "Andi" -> 55
      [] op = "Print" -> 64
      [] op = "Stop" -> 80

Opcode_len(op) ==
    CASE op = "Nop" -> 1
      [] op = "Ld" -> 2
      [] op = "Ldi" -> 2
      [] op = "St" -> 2
      [] op = "Sti" -> 3
      [] op = "Mov" -> 3
      [] op = "Jmp" -> 2
      [] op = "Jz" -> 2
      [] op = "Add" -> 2
      [] op = "Addi" -> 2
      [] op = "Sub" -> 2
      [] op = "Subi" -> 2
      [] op = "Shr" -> 1
      [] op = "Shl" -> 1
      [] op = "And" -> 2
      [] op = "Andi" -> 2
      [] op = "Print" -> 2
      [] op = "Stop" -> 1

(***************************************************************************)
(* The programs tried.  Every byte sequence is a program; these are the    *)
(* ones the model loads.                                                   *)
(***************************************************************************)
\* the sequence of the first n cells of a function on addresses
AsProgram(cells, n) == [i \in 1 .. n |-> cells[i - 1]]

\* ldi a; jmp p; and at p one instruction op b1 b2 followed by stop, with the
\* string [2, 'H', 'I'] at address 10.  An operand or the stop that would fall
\* beyond address 255 is left out: the instruction then reads the bytes at
\* addresses 0 and 1.
InstrCells(a, p, op, b1, b2) ==
    [i \in 0 .. 255 |->
        IF i = 0 THEN 17
        ELSE IF i = 1 THEN a
        ELSE IF i = 2 THEN 32
        ELSE IF i = 3 THEN p
        ELSE IF i = p THEN op
        ELSE IF i = p + 1 THEN b1
        ELSE IF i = p + 2 THEN b2
        ELSE IF i = p + 3 THEN 80
        ELSE IF i = 10 THEN 2
        ELSE IF i = 11 THEN 72
        ELSE IF i = 12 THEN 73
        ELSE 0]

InstrProgram(a, p, op, b1, b2) ==
    AsProgram(InstrCells(a, p, op, b1, b2),
              IF p + 4 <= 13 THEN 13
              ELSE IF p + 4 <= 256 THEN p + 4 ELSE 256)

\* print src; stop; with the length byte len at src and the bytes of str after
\* it, wrapping at 255 but leaving the three code bytes alone
PrintCells(src, len, str) ==
    [i \in 0 .. 255 |->
        IF i = 0 THEN 64
        ELSE IF i = 1 THEN src
        ELSE IF i = 2 THEN 80
        ELSE IF i = src THEN len
        ELSE IF (i - src + 256) % 256 <= Len(str) THEN str[(i - src + 256) % 256]
        ELSE 0]

PrintProgram(src, len, str) ==
    AsProgram(PrintCells(src, len, str),
              IF src + Len(str) + 1 <= 256 THEN src + Len(str) + 1 ELSE 256)

\* the bytes the instruction programs put at p: the 18 opcodes and three bytes
\* that are no opcode
OpInputs ==
    {0, 16, 17, 18, 19, 20, 32, 33, 48, 49, 50, 51, 52, 53, 54, 55, 64, 80,
     1, 96, 255}

AccInputs == {0, 3, 128, 255}

PlaceInputs == {4, 254, 255}

Operand1Inputs == {0, 2, 10, 128, 255}

Operand2Inputs == {0, 20, 255}

PrintSrcInputs == {10, 253, 255}

\* "HI", a valid 2-, 3- and 4-byte sequence, and invalid ones: a lone
\* continuation byte, a lead byte without its continuation, a 4-byte sequence
\* cut short, a byte that starts nothing
StrInputs ==
    {<<72, 73>>, <<195, 169>>, <<226, 130, 172>>, <<240, 159, 146, 150>>,
     <<128, 73>>, <<195, 73>>, <<240, 159, 146>>, <<72, 255>>}

\* ldi a; op v; stop, for the ALU opcodes that take a value or nothing
AluImmediate(a, op, v) == <<17, a, op, v, 80>>

\* ldi a; op 5; stop; with the value v at address 5
AluIndirect(a, op, v) == <<17, a, op, 5, 80, v>>

AluInputs == {0, 1, 85, 127, 128, 170, 254, 255}

\* ldi 5; stop
Scenario1 == <<17, 5, 80>>

\* addi 255; stop
Scenario2 == <<49, 255, 80>>

\* addi 255; addi 2; stop
Scenario2b == <<49, 255, 49, 2, 80>>

\* print 10; stop; "HI" at 10
Scenario3 == PrintProgram(10, 2, <<72, 73>>)

\* a byte that is no opcode
Scenario6 == <<96>>

Programs ==
    {InstrProgram(a, p, op, b1, b2) :
        a \in AccInputs, p \in PlaceInputs, op \in OpInputs,
        b1 \in Operand1Inputs, b2 \in Operand2Inputs}
    \cup {PrintProgram(src, len, str) :
        src \in PrintSrcInputs, len \in 0 .. MaxStrLen, str \in StrInputs}
    \cup {AluImmediate(a, op, v) :
        a \in AluInputs, op \in {49, 51, 52, 53, 55}, v \in AluInputs}
    \cup {AluIndirect(a, op, v) :
        a \in AluInputs, op \in {48, 50, 54}, v \in AluInputs}
    \cup {Scenario1, Scenario2, Scenario2b, Scenario3, Scenario6, << >>}
    \cup {[i \in 1 .. MACHINE_MEMORY_SIZE + k |-> 80] : k \in 1 .. MaxExcess}

(***************************************************************************)
(* The process.                                                            *)
(***************************************************************************)
\* no call of parse is under way: the assembler's variables at rest
NotYet == [kind |-> "NotYet"]

AsmIdle ==
    /\ input = << >>
    /\ parse_state = "idle"
    /\ line_number = 0
    /\ tokens = NotYet
    /\ parsed = NotYet
    /\ lines = << >>
    /\ error = FALSE
    /\ emitted = << >>

\* main has read the program file; no Machine exists yet
Init ==
    /\ program \in Programs
    /\ status = "start"
    /\ pc = 0
    /\ acc = 0
    /\ memory = NoMemory
    /\ output = << >>
    /\ panic = NoPanic
    /\ AsmIdle

\* Machine::from_program
FromProgram ==
    /\ status = "start"
    /\ IF from_program_assert(program)
       THEN /\ pc' = 0
            /\ acc' = 0
            /\ memory' = Memory_from_program(program)
            /\ status' = "running"
            /\ UNCHANGED panic
       ELSE /\ status' = "panicked"
            /\ panic' = [kind |-> "assertion", args |-> << >>]
            /\ UNCHANGED <<pc, acc, memory>>
    /\ UNCHANGED <<program, output>>
    /\ UNCHANGED asm_vars

\* the byte run fetches: let current_op_code = self.memory[self.pc]
current_op_code == memory[pc]

\* an iteration of the loop of run is under way
Fetch(byte) == status = "running" /\ current_op_code = byte

\* the operand bytes of the instruction at pc
operand1 == memory[wrapping_add(pc, 1)]

operand2 == memory[wrapping_add(pc, 2)]

\* a variant of Advance that adds with +, which panics on overflow in a debug
\* build
Advance_checked(instruction_len) ==
    IF pc + instruction_len > 255
    THEN /\ status' = "panicked"
         /\ panic' = [kind |-> "add overflow", args |-> << >>]
         /\ UNCHANGED <<program, pc>>
    ELSE /\ pc' = pc + instruction_len
         /\ UNCHANGED <<program, status, panic>>

\* self.pc = self.pc.wrapping_add(instruction_len), and the loop goes on
Advance(instruction_len) ==
    /\ pc' = wrapping_add(pc, instruction_len)
    /\ UNCHANGED <<program, status, panic>>

\* 0x00 nop
Nop ==
    /\ Fetch(0)
    /\ Advance(1)
    /\ UNCHANGED <<acc, memory, output>>
    /\ UNCHANGED asm_vars

\* 0x10 load
Ld ==
    /\ Fetch(16)
    /\ acc' = memory[operand1]
    /\ Advance(2)
    /\ UNCHANGED <<memory, output>>
    /\ UNCHANGED asm_vars

\* 0x11 load immediate
Ldi ==
    /\ Fetch(17)
    /\ acc' = operand1
    /\ Advance(2)
    /\ UNCHANGED <<memory, output>>
    /\ UNCHANGED asm_vars

\* 0x12 store
St ==
    /\ Fetch(18)
    /\ memory' = [memory EXCEPT ![operand1] = acc]
    /\ Advance(2)
    /\ UNCHANGED <<acc, output>>
    /\ UNCHANGED asm_vars

\* a variant of Sti that reads the destination first and the value second
Sti_dst_first ==
    /\ Fetch(19)
    /\ memory' = [memory EXCEPT ![operand1] = operand2]
    /\ Advance(3)
    /\ UNCHANGED <<acc, output>>
    /\ UNCHANGED asm_vars

\* 0x13 store immediate
Sti ==
    /\ Fetch(19)
    /\ memory' = [memory EXCEPT ![operand2] = operand1]
    /\ Advance(3)
    /\ UNCHANGED <<acc, output>>
    /\ UNCHANGED asm_vars

\* a variant of Mov that clears the source cell as well
Mov_clears_source ==
    /\ Fetch(20)
    /\ memory' = [[memory EXCEPT ![operand2] = memory[operand1]]
                     EXCEPT ![operand1] = 0]
    /\ Advance(3)
    /\ UNCHANGED <<acc, output>>
    /\ UNCHANGED asm_vars

\* 0x14 move
Mov ==
    /\ Fetch(20)
    /\ memory' = [memory EXCEPT ![operand2] = memory[operand1]]
    /\ Advance(3)
    /\ UNCHANGED <<acc, output>>
    /\ UNCHANGED asm_vars

\* 0x20 jump
Jmp ==
    /\ Fetch(32)
    /\ pc' = wrapping_add(operand1, 0)
    /\ UNCHANGED <<program, status, panic, acc, memory, output>>
    /\ UNCHANGED asm_vars

\* a variant of Jz whose taken branch also yields the instruction length 2
Jz_taken_advances ==
    /\ Fetch(33)
    /\ IF acc = 0
       THEN pc' = wrapping_add(operand1, 2)
       ELSE pc' = wrapping_add(pc, 2)
    /\ UNCHANGED <<program, status, panic, acc, memory, output>>
    /\ UNCHANGED asm_vars

\* 0x21 jump zero
Jz ==
    /\ Fetch(33)
    /\ IF acc = 0
       THEN pc' = wrapping_add(operand1, 0)
       ELSE pc' = wrapping_add(pc, 2)
    /\ UNCHANGED <<program, status, panic, acc, memory, output>>
    /\ UNCHANGED asm_vars

\* 0x30 add
Add ==
    /\ Fetch(48)
    /\ acc' = wrapping_add(acc, memory[operand1])
    /\ Advance(2)
    /\ UNCHANGED <<memory, output>>
    /\ UNCHANGED asm_vars

\* a variant of Addi that takes its operand for an address, as add does
Addi_indirect ==
    /\ Fetch(49)
    /\ acc' = wrapping_add(acc, memory[operand1])
    /\ Advance(2)
    /\ UNCHANGED <<memory, output>>
    /\ UNCHANGED asm_vars

\* 0x31 add immediate
Addi ==
    /\ Fetch(49)
    /\ acc' = wrapping_add(acc, operand1)
    /\ Advance(2)
    /\ UNCHANGED <<memory, output>>
    /\ UNCHANGED asm_vars

\* 0x32 subtract
Sub ==
    /\ Fetch(50)
    /\ acc' = wrapping_sub(acc, memory[operand1])
    /\ Advance(2)
    /\ UNCHANGED <<memory, output>>
    /\ UNCHANGED asm_vars

\* 0x33 subtract immediate
Subi ==
    /\ Fetch(51)
    /\ acc' = wrapping_sub(acc, operand1)
    /\ Advance(2)
    /\ UNCHANGED <<memory, output>>
    /\ UNCHANGED asm_vars

\* 0x34 shift right
Shr ==
    /\ Fetch(52)
    /\ acc' = shr1(acc)
    /\ Advance(1)
    /\ UNCHANGED <<memory, output>>
    /\ UNCHANGED asm_vars

\* 0x35 shift left
Shl ==
    /\ Fetch(53)
    /\ acc' = shl1(acc)
    /\ Advance(1)
    /\ UNCHANGED <<memory, output>>
    /\ UNCHANGED asm_vars

\* 0x36 and
And ==
    /\ Fetch(54)
    /\ acc' = bitand(acc, memory[operand1])
    /\ Advance(2)
    /\ UNCHANGED <<memory, output>>
    /\ UNCHANGED asm_vars

\* 0x37 and immediate
Andi ==
    /\ Fetch(55)
    /\ acc' = bitand(acc, operand1)
    /\ Advance(2)
    /\ UNCHANGED <<memory, output>>
    /\ UNCHANGED asm_vars

\* 0x40 print: the slice panics unless its bounds are in order
PrintOp ==
    /\ Fetch(64)
    /\ LET src == operand1
           len == memory[src]
           start == wrapping_add(src, 1)
           end == wrapping_add(src, len)
       IN IF slice_in_order(start, end)
          THEN /\ \E chars \in {memory_range(memory, start, end)} :
                     output' = println(output, from_utf8_lossy(chars))
               /\ Advance(2)
          ELSE /\ status' = "panicked"
               /\ panic' = [kind |-> "slice index order",
                            args |-> <<start, end + 1>>]
               /\ UNCHANGED <<program, pc, output>>
    /\ UNCHANGED <<acc, memory>>
    /\ UNCHANGED asm_vars

\* a variant of Stop that steps over the stop byte before returning
Stop_advances ==
    /\ Fetch(80)
    /\ status' = "stopped"
    /\ pc' = wrapping_add(pc, 1)
    /\ UNCHANGED <<program, acc, memory, output, panic>>
    /\ UNCHANGED asm_vars

\* 0x50 stop: run returns
Stop ==
    /\ Fetch(80)
    /\ status' = "stopped"
    /\ UNCHANGED <<program, pc, acc, memory, output, panic>>
    /\ UNCHANGED asm_vars

\* the bytes the match of run has an arm for
run_opcodes ==
    {0, 16, 17, 18, 19, 20, 32, 33, 48, 49, 50, 51, 52, 53, 54, 55, 64, 80}

\* a variant of UnknownInstruction that reports the position after the opcode
UnknownInstruction_next_pos ==
    /\ status = "running"
    /\ current_op_code \notin run_opcodes
    /\ status' = "panicked"
    /\ panic' = [kind |-> "unknown instruction",
                 args |-> <<current_op_code, wrapping_add(pc, 1)>>]
    /\ UNCHANGED <<program, pc, acc, memory, output>>
    /\ UNCHANGED asm_vars

\* the last arm: panic!("Unknown instruction {:02x} in position: {:02x}", ..)
UnknownInstruction ==
    /\ status = "running"
    /\ current_op_code \notin run_opcodes
    /\ status' = "panicked"
    /\ panic' = [kind |-> "unknown instruction",
                 args |-> <<current_op_code, pc>>]
    /\ UNCHANGED <<program, pc, acc, memory, output>>
    /\ UNCHANGED asm_vars

Next ==
    \/ FromProgram
    \/ Nop
    \/ Ld
    \/ Ldi
    \/ St
    \/ Sti
    \/ Mov
    \/ Jmp
    \/ Jz
    \/ Add
    \/ Addi
    \/ Sub
    \/ Subi
    \/ Shr
    \/ Shl
    \/ And
    \/ Andi
    \/ PrintOp
    \/ Stop
    \/ UnknownInstruction

Spec == Init /\ [][Next]_vars

\* the loop of run never pauses: an iteration that can be taken is taken
FairSpec == Spec /\ WF_vars(Next)

(***************************************************************************)
(* The assembler: characters, spans and diagnostics.                       *)
(*                                                                         *)
(* A &str is a sequence of characters, a character a one-character string; *)
(* "U+00E9" and "U+20AC" stand for the two- and three-byte characters of   *)
(* those code points.  Offsets and spans count bytes, as in the code.      *)
(***************************************************************************)
\* the characters c with c.is_digit(16), in the order of their values
DecimalDigits == <<"0", "1", "2", "3", "4", "5", "6", "7", "8", "9">>

LowerHexDigits == DecimalDigits \o <<"a", "b", "c", "d", "e", "f">>

UpperHexDigits == DecimalDigits \o <<"A", "B", "C", "D", "E", "F">>

Range(s) == {s[i] : i \in DOMAIN s}

\* char::is_digit(16)
is_digit_16(c) == c \in Range(LowerHexDigits) \cup Range(UpperHexDigits)

\* char::to_digit(16) of a character with is_digit(16)
to_digit_16(c) ==
    IF c \in Range(LowerHexDigits)
    THEN (CHOOSE i \in DOMAIN LowerHexDigits : LowerHexDigits[i] = c) - 1
    ELSE (CHOOSE i \in DOMAIN UpperHexDigits : UpperHexDigits[i] = c) - 1

\* char::is_alphabetic, on the characters of the model
is_alphabetic(c) ==
    c \in {"a", "b", "c", "d", "e", "f", "g", "h", "i", "j", "k", "l", "m",
           "n", "o", "p", "q", "r", "s", "t", "u", "v", "w", "x", "y", "z",
           "A", "B", "C", "D", "E", "F", "G", "H", "I", "J", "K", "L", "M",
           "N", "O", "P", "Q", "R", "S", "T", "U", "V", "W", "X", "Y", "Z",
           "U+00E9"}

\* char::is_alphanumeric, on the characters of the model
is_alphanumeric(c) == is_alphabetic(c) \/ c \in Range(DecimalDigits)

\* a variant of is_whitespace that counts `;` as whitespace
is_whitespace_or_semicolon(c) == c \in {" ", "\t", "\r", "\n", ";"}

\* char::is_whitespace, on the characters of the model
is_whitespace(c) == c \in {" ", "\t", "\r", "\n"}

\* char::len_utf8
len_utf8(c) ==
    IF c = "U+00E9" THEN 2 ELSE IF c = "U+20AC" THEN 3 ELSE 1

\* str::len: the length of a &str in bytes
RECURSIVE str_len(_)
str_len(s) ==
    IF s = << >> THEN 0 ELSE len_utf8(Head(s)) + str_len(Tail(s))

\* the byte index char_indices gives the k-th character of s (k from 1)
char_index(s, k) == str_len(SubSeq(s, 1, k - 1))

\* Span::new
Span_new(lo, hi) == [lo |-> lo, hi |-> hi]

\* Span::len
Span_len(span) == span.hi - span.lo

\* Spanned { data, span }
Spanned(data, span) == [data |-> data, span |-> span]

\* the Token variants; name is the text of an Ident, value the byte of a
\* Literal
Token_Dot == [type |-> "Dot", name |-> << >>, value |-> 0]

Token_Colon == [type |-> "Colon", name |-> << >>, value |-> 0]

Token_BracketOpen == [type |-> "BracketOpen", name |-> << >>, value |-> 0]

Token_BracketClose == [type |-> "BracketClose", name |-> << >>, value |-> 0]

Token_Ident(name) == [type |-> "Ident", name |-> name, value |-> 0]

Token_Literal(v) == [type |-> "Literal", name |-> << >>, value |-> v]

\* what a message was formatted with: nothing, or the text of a &str
NoArg == [type |-> "None", name |-> << >>, value |-> 0]

StrArg(s) == [type |-> "str", name |-> s, value |-> 0]

\* Diag::span_error: msg is the format string, arg the token or text
\* formatted into it, span the Some(span)
Diag_span_error(span, msg, arg) ==
    [msg |-> msg, arg |-> arg, span |-> span, notes |-> << >>]

\* a variant of add_note that drops the note
add_note_dropped(diag, note) == diag

\* Diag::add_note
add_note(diag, note) == [diag EXCEPT !.notes = Append(@, note)]

\* Result<_, Diag>
Ok(v) == [kind |-> "Ok", value |-> v]

Err(diag) == [kind |-> "Err", diag |-> diag]

(***************************************************************************)
(* The lexer.                                                              *)
(***************************************************************************)
\* the fold of u8::from_str_radix(digits, 16) from digit i on, with the value
\* v so far: checked_mul and checked_add fail above u8::MAX
RECURSIVE from_str_radix_from(_, _, _)
from_str_radix_from(digits, i, v) ==
    IF i > Len(digits) THEN Ok(v)
    ELSE IF v * 16 > 255 \/ v * 16 + to_digit_16(digits[i]) > 255
         THEN Err("PosOverflow")
         ELSE from_str_radix_from(digits, i + 1,
                                  v * 16 + to_digit_16(digits[i]))

\* a variant of from_str_radix that takes two digits at most
from_str_radix_two_digits(digits) ==
    IF digits = << >> \/ Len(digits) > 2 THEN Err("Invalid")
    ELSE from_str_radix_from(digits, 1, 0)

\* a variant of from_str_radix that reads no digits as zero
from_str_radix_empty_is_zero(digits) == from_str_radix_from(digits, 1, 0)

\* u8::from_str_radix(digits, 16), for digits with is_digit(16)
from_str_radix(digits) ==
    IF digits = << >> THEN Err("Empty") ELSE from_str_radix_from(digits, 1, 0)

\* the index of the first character of line at or after k that fails the
\* test, Len(line) + 1 when there is none: where a `while let Some(..) =
\* chars.peek()` loop stops
hex_run_end(line, k) ==
    IF \E i \in k .. Len(line) : ~is_digit_16(line[i])
    THEN CHOOSE i \in k .. Len(line) :
            /\ ~is_digit_16(line[i])
            /\ \A j \in k .. i - 1 : is_digit_16(line[j])
    ELSE Len(line) + 1

ident_run_end(line, k) ==
    IF \E i \in k .. Len(line) : ~is_alphanumeric(line[i])
    THEN CHOOSE i \in k .. Len(line) :
            /\ ~is_alphanumeric(line[i])
            /\ \A j \in k .. i - 1 : is_alphanumeric(line[j])
    ELSE Len(line) + 1

\* is_ident_start and is_ident_char
is_ident_start(c) == c = "_" \/ is_alphabetic(c)

is_ident_char(c) == is_alphanumeric(c)

\* a variant of peek_index that counts characters
peek_index_chars(line, k) == IF k <= Len(line) THEN k - 1 ELSE Len(line)

\* chars.peek().map(|(i, _)| *i).unwrap_or(line.len()), with the iterator at
\* the k-th character
peek_index(line, k) ==
    IF k <= Len(line) THEN char_index(line, k) ELSE str_len(line)

\* the `end` the literal arm has computed when its loop stops at character e:
\* start + c.len_utf8(), then i + c.len_utf8() for each digit consumed
literal_end(line, k, e) ==
    IF e = k + 1 THEN char_index(line, k) + len_utf8(line[k])
    ELSE char_index(line, e - 1) + len_utf8(line[e - 1])

\* the loop of tokenize with the iterator at the k-th character and the
\* tokens pushed so far (the messages are written without the backquotes
\* they have around u8 and $FF)
RECURSIVE tokenize_from(_, _, _)
tokenize_from(line, k, toks) ==
    IF k > Len(line) THEN Ok(toks)
    ELSE
      LET c == line[k]
          start == char_index(line, k)
          single(token) ==
              tokenize_from(line, k + 1,
                  Append(toks, Spanned(token,
                                       Span_new(start, peek_index(line, k + 1)))))
      IN
      CASE c = "." -> single(Token_Dot)
        [] c = ":" -> single(Token_Colon)
        [] c = "[" -> single(Token_BracketOpen)
        [] c = "]" -> single(Token_BracketClose)
        [] c = "$" ->
            LET e == hex_run_end(line, k + 1)
                end == literal_end(line, k, e)
                r == from_str_radix(SubSeq(line, k + 1, e - 1))
            IN IF r.kind = "Ok"
               THEN tokenize_from(line, e,
                        Append(toks, Spanned(Token_Literal(r.value),
                                             Span_new(start, peek_index(line, e)))))
               ELSE Err(add_note(add_note(
                        Diag_span_error(Span_new(start, end),
                            "this literal's value overflows u8", NoArg),
                        "only values between 0 and 255 ($FF) are allowed"),
                        "numbers are specified in hexadecimal"))
        [] c \notin {".", ":", "[", "]", "$"} /\ is_ident_start(c) ->
            LET e == ident_run_end(line, k + 1)
            IN tokenize_from(line, e,
                   Append(toks, Spanned(Token_Ident(SubSeq(line, k, e - 1)),
                                        Span_new(start, peek_index(line, e)))))
        [] ~is_ident_start(c) /\ is_whitespace(c) ->
            tokenize_from(line, k + 1, toks)
        [] c = ";" -> Ok(toks)
        [] OTHER ->
            Err(Diag_span_error(Span_new(start, start + len_utf8(c)),
                                "invalid token start character", NoArg))

\* tokenize
tokenize(line) == tokenize_from(line, 1, << >>)

(***************************************************************************)
(* The line parser.                                                        *)
(***************************************************************************)
\* the Instruction variants, each with the names of its fields
Instruction_fields(variant) ==
    CASE variant = "Instruction::Nop" -> << >>
      [] variant = "Instruction::Ld" -> <<"src">>
      [] variant = "Instruction::Ldi" -> <<"v">>
      [] variant = "Instruction::St" -> <<"dst">>
      [] variant = "Instruction::Sti" -> <<"v">>
      [] variant = "Instruction::Mov" -> <<"src", "dst">>
      [] variant = "Instruction::Jmp" -> <<"target">>
      [] variant = "Instruction::Jz" -> <<"target">>
      [] variant = "Instruction::Add" -> <<"src">>
      [] variant = "Instruction::Addi" -> <<"v">>
      [] variant = "Instruction::Sub" -> <<"src">>
      [] variant = "Instruction::Subi" -> <<"v">>
      [] variant = "Instruction::Shr" -> << >>
      [] variant = "Instruction::Shl" -> << >>
      [] variant = "Instruction::And" -> <<"src">>
      [] variant = "Instruction::Andi" -> <<"v">>
      [] variant = "Instruction::Print" -> <<"src">>
      [] variant = "Instruction::Stop" -> << >>

Instruction ==
    {"Instruction::Nop", "Instruction::Ld", "Instruction::Ldi",
     "Instruction::St", "Instruction::Sti", "Instruction::Mov",
     "Instruction::Jmp", "Instruction::Jz", "Instruction::Add",
     "Instruction::Addi", "Instruction::Sub", "Instruction::Subi",
     "Instruction::Shr", "Instruction::Shl", "Instruction::And",
     "Instruction::Andi", "Instruction::Print", "Instruction::Stop"}

\* Instruction::opcode
Instruction_opcode(variant) ==
    CASE variant = "Instruction::Nop" -> "Nop"
      [] variant = "Instruction::Ld" -> "Ld"
      [] variant = "Instruction::Ldi" -> "Ldi"
      [] variant = "Instruction::St" -> "St"
      [] variant = "Instruction::Sti" -> "Sti"
      [] variant = "Instruction::Mov" -> "Mov"
      [] variant = "Instruction::Jmp" -> "Jmp"
      [] variant = "Instruction::Jz" -> "Jz"
      [] variant = "Instruction::Add" -> "Add"
      [] variant = "Instruction::Addi" -> "Addi"
      [] variant = "Instruction::Sub" -> "Sub"
      [] variant = "Instruction::Subi" -> "Subi"
      [] variant = "Instruction::Shr" -> "Shr"
      [] variant = "Instruction::Shl" -> "Shl"
      [] variant = "Instruction::And" -> "And"
      [] variant = "Instruction::Andi" -> "Andi"
      [] variant = "Instruction::Print" -> "Print"
      [] variant = "Instruction::Stop" -> "Stop"

\* an Instruction value: its variant and the Arg of each field
Instruction_Nop == [variant |-> "Instruction::Nop", args |-> << >>]

\* the Line variants and Directive::Byte
Directive_Byte(v) == [kind |-> "Byte", value |-> v]

Line_Instruction(instruction) == [kind |-> "Instruction", value |-> instruction]

Line_Directive(directive) == [kind |-> "Directive", value |-> directive]

Line_Label(name) == [kind |-> "Label", value |-> name]

\* the None of Option<Line>
NoLine == [kind |-> "None"]

\* a variant of expect_token that, at the end of the line, gives a span of no
\* width one byte after the end of the previous token
expect_token_zero_width(toks, idx, expected_str, type) ==
    IF idx < Len(toks)
    THEN IF toks[idx + 1].data.type = type
         THEN Ok(toks[idx + 1].data)
         ELSE Err(Diag_span_error(toks[idx + 1].span,
                      "unexpected '{:?}' token, expected " \o expected_str,
                      toks[idx + 1].data))
    ELSE Err(Diag_span_error(
                 Span_new(toks[idx].span.hi + 1, toks[idx].span.hi + 1),
                 "unexpected end of line, expected " \o expected_str, NoArg))

\* expect_token!(tokens[idx]; expected_str; <a token of the type> => its
\* data): the data, or the Err the macro returns with.  idx counts from 0.
expect_token(toks, idx, expected_str, type) ==
    IF idx < Len(toks)
    THEN IF toks[idx + 1].data.type = type
         THEN Ok(toks[idx + 1].data)
         ELSE Err(Diag_span_error(toks[idx + 1].span,
                      "unexpected '{:?}' token, expected " \o expected_str,
                      toks[idx + 1].data))
    ELSE Err(Diag_span_error(
                 Span_new(toks[idx].span.hi, toks[idx].span.hi + 1),
                 "unexpected end of line, expected " \o expected_str, NoArg))

\* a variant of expect_eol that lets the rest of the line pass
expect_eol_lenient(toks, idx, additional_str) == Ok(<< >>)

\* expect_eol!(tokens[idx], additional_str): Ok, or the Err the macro returns
\* with
expect_eol(toks, idx, additional_str) ==
    IF idx < Len(toks)
    THEN Err(Diag_span_error(toks[idx + 1].span,
                 "unexpected token '{:?}', expected end of line"
                     \o additional_str,
                 toks[idx + 1].data))
    ELSE Ok(<< >>)

\* parse_instruction
parse_instruction(name, toks) == Ok(Instruction_Nop)

\* the &str "byte"
byte == <<"b", "y", "t", "e">>

\* a variant of parse_directive that takes every name for byte
parse_directive_any_name(name, toks) ==
    LET v == expect_token(toks, 2, "literal", "Literal")
        eol == expect_eol(toks, 3, "")
    IN IF v.kind = "Err" THEN v
       ELSE IF eol.kind = "Err" THEN eol
       ELSE Ok(Directive_Byte(v.value.value))

\* parse_directive
parse_directive(name, toks) ==
    IF name = byte
    THEN LET v == expect_token(toks, 2, "literal", "Literal")
             eol == expect_eol(toks, 3, "")
         IN IF v.kind = "Err" THEN v
            ELSE IF eol.kind = "Err" THEN eol
            ELSE Ok(Directive_Byte(v.value.value))
    ELSE Err(Diag_span_error(toks[2].span, "invalid directive name '{}'",
                             StrArg(name)))

\* parse_line
parse_line(toks) ==
    IF toks = << >> THEN Ok(NoLine)
    ELSE
      CASE toks[1].data.type = "Dot" ->
            LET name == expect_token(toks, 1, "ident", "Ident")
                colon_next ==
                    IF 2 < Len(toks) THEN toks[3].data = Token_Colon ELSE FALSE
            IN IF name.kind = "Err" THEN name
               ELSE IF colon_next
               THEN LET eol == expect_eol(toks, 3, " after label")
                    IN IF eol.kind = "Err" THEN eol
                       ELSE Ok(Line_Label(name.value.name))
               ELSE LET directive == parse_directive(name.value.name, toks)
                    IN IF directive.kind = "Err" THEN directive
                       ELSE Ok(Line_Directive(directive.value))
        [] toks[1].data.type = "Ident" ->
            LET instruction == parse_instruction(toks[1].data.name, toks)
            IN IF instruction.kind = "Err" THEN instruction
               ELSE Ok(Line_Instruction(instruction.value))
        [] OTHER ->
            Err(add_note(Diag_span_error(toks[1].span,
                             "unexpected '{:?}' token at start of line",
                             toks[1].data),
                         "expected ident or '.'"))

(***************************************************************************)
(* parse.                                                                  *)
(***************************************************************************)
\* the index of the first "\n" of input at or after a, Len(input) + 1 when
\* there is none
line_break(input_, a) ==
    IF \E i \in a .. Len(input_) : input_[i] = "\n"
    THEN CHOOSE i \in a .. Len(input_) :
            /\ input_[i] = "\n"
            /\ \A j \in a .. i - 1 : input_[j] # "\n"
    ELSE Len(input_) + 1

\* str::lines from the a-th character on: the lines end at "\n" or "\r\n",
\* which are not part of them, and a last line need not be ended.  A line is
\* a slice: its text, and where it starts in the input (its pointer, as a
\* byte offset).
RECURSIVE str_lines_from(_, _)
str_lines_from(input_, a) ==
    IF a > Len(input_) THEN << >>
    ELSE LET e == line_break(input_, a)
             raw == SubSeq(input_, a, e - 1)
             text == IF e <= Len(input_) /\ raw # << >> /\ raw[Len(raw)] = "\r"
                     THEN SubSeq(raw, 1, Len(raw) - 1)
                     ELSE raw
         IN <<[text |-> text, ptr |-> char_index(input_, a)]>>
            \o str_lines_from(input_, e + 1)

\* str::lines
str_lines(input_) == str_lines_from(input_, 1)

\* a variant of line_span that measures the line in characters
line_span_chars(line) == Span_new(line.ptr, line.ptr + Len(line.text))

\* line_span: let start = line.as_ptr() - input.as_ptr()
line_span(line) == Span_new(line.ptr, line.ptr + str_len(line.text))

\* Diag::emit(self, line, line_number): what it is called with, the line
\* number it prints, and the underline it draws under the line
emit(diag, line, n) ==
    [diag |-> diag, line |-> line.text, line_number |-> n, num |-> n + 1,
     before_underline |-> diag.span.lo, underline |-> Span_len(diag.span)]

\* Result::and_then(parse_line)
and_then_parse_line(r) == IF r.kind = "Ok" THEN parse_line(r.value) ELSE r

(***************************************************************************)
(* The sources parse is called with.                                       *)
(***************************************************************************)
\* how many lines the sources of several lines have at most
MaxLines == 3

foo == <<"f", "o", "o">>

\* pieces of a line for the line parser: nothing, punctuation, names (byte,
\* the mnemonics nop and ldi, a name that is neither), a literal after a
\* blank, a blank, a comment
ParserPieces ==
    {<< >>, <<".">>, <<":">>, <<"]">>, byte, foo, <<"n", "o", "p">>,
     <<"l", "d", "i">>, <<" ", "$", "F", "F">>, <<" ">>, <<";">>}

\* pieces of a line for the lexer: literals of no to four digits in both
\* cases, at and above 0xFF, a digit, names with an underscore, a digit and
\* a two-byte letter, blanks, a comment, characters that start no token
LexerPieces ==
    {<< >>, <<"$">>, <<"$", "0">>, <<"$", "F", "F">>, <<"$", "0", "F", "F">>,
     <<"$", "1", "0", "0">>, <<"$", "a", "B">>, <<"$", "0", "0", "7", "f">>,
     <<"$", "F", "F", "F", "F">>, <<"0">>, <<"g">>, <<"_">>, <<"x", "9">>,
     <<"U+00E9", "t", "U+00E9">>, <<"[">>, <<".">>, <<" ">>, <<"\t">>,
     <<";">>, <<"#">>, <<"U+20AC">>}

\* the lines of the sources of several lines: blank, comment only, a label
\* with a two-byte letter, an instruction with a comment, and lines that
\* fail in the line parser and in the lexer
LineInputs ==
    {<< >>, <<" ", ";", "c">>, <<".", "U+00E9", ":">>,
     <<"n", "o", "p", " ", ";">>, <<".", "f", "o", "o">>, <<" ", "#">>}

\* the line endings
LineEndings == {<<"\n">>, <<"\r", "\n">>}

\* the lines ls, each but the last followed by the ending nl, and the last
\* followed by last
RECURSIVE Join(_, _, _)
Join(ls, nl, last) ==
    IF Len(ls) = 1 THEN ls[1] \o last
    ELSE ls[1] \o nl \o Join(Tail(ls), nl, last)

Sources ==
    {a \o b \o c \o d : a \in ParserPieces, b \in ParserPieces,
                        c \in ParserPieces, d \in ParserPieces}
    \cup {a \o b \o c : a \in LexerPieces, b \in LexerPieces, c \in LexerPieces}
    \cup UNION {UNION {{Join(ls, nl, last) :
                            ls \in [1 .. n -> LineInputs], last \in {<< >>, nl}} :
                        nl \in LineEndings} : n \in 1 .. MaxLines}

(***************************************************************************)
(* One call of parse.                                                      *)
(***************************************************************************)
\* main calls parse::parse(&src)
AsmInit ==
    /\ input \in Sources
    /\ parse_state = "parsing"
    /\ line_number = 0
    /\ tokens = NotYet
    /\ parsed = NotYet
    /\ lines = << >>
    /\ error = FALSE
    /\ emitted = << >>
    /\ program = << >>
    /\ status = "idle"
    /\ pc = 0
    /\ acc = 0
    /\ memory = NoMemory
    /\ output = << >>
    /\ panic = NoPanic

\* the iterator yields the next (line_number, line) and the closure runs
\* tokenize(line).and_then(parse_line) on it
NextLine(line) ==
    /\ parse_state = "parsing"
    /\ line_number < Len(str_lines(input))
    /\ line = str_lines(input)[line_number + 1]
    /\ tokens' = tokenize(line.text)
    /\ parsed' = and_then_parse_line(tokens')
    /\ line_number' = line_number + 1
    /\ UNCHANGED <<input, parse_state>>
    /\ UNCHANGED vm_vars

\* the closure of filter_map, on a line that gives Err(e): unwrap_or_else
\* emits e, sets the flag and yields None
LineFails ==
    \E line \in {str_lines(input)[i] : i \in {line_number + 1}
                                          \cap DOMAIN str_lines(input)} :
        /\ NextLine(line)
        /\ parsed'.kind = "Err"
        /\ emitted' = Append(emitted, emit(parsed'.diag, line, line_number))
        /\ error' = TRUE
        /\ UNCHANGED lines

\* the closure of filter_map, on a line that gives Ok(None)
LineEmpty ==
    \E line \in {str_lines(input)[i] : i \in {line_number + 1}
                                          \cap DOMAIN str_lines(input)} :
        /\ NextLine(line)
        /\ parsed'.kind = "Ok"
        /\ parsed'.value = NoLine
        /\ UNCHANGED <<lines, error, emitted>>

\* the closure of filter_map, on a line that gives Ok(Some(x)): map adds
\* the span of the line
LineParsed ==
    \E line \in {str_lines(input)[i] : i \in {line_number + 1}
                                          \cap DOMAIN str_lines(input)} :
        /\ NextLine(line)
        /\ parsed'.kind = "Ok"
        /\ parsed'.value # NoLine
        /\ lines' = Append(lines, Spanned(parsed'.value, line_span(line)))
        /\ UNCHANGED <<error, emitted>>

\* a variant of ReturnErr that gives up at the first error, with lines left
\* in the iterator
ReturnErr_at_first_error ==
    /\ parse_state = "parsing"
    /\ error
    /\ parse_state' = "Err"
    /\ UNCHANGED <<input, line_number, tokens, parsed, lines, error, emitted>>
    /\ UNCHANGED vm_vars

\* the iterator is exhausted and error is set: Err(())
ReturnErr ==
    /\ parse_state = "parsing"
    /\ line_number = Len(str_lines(input))
    /\ error
    /\ parse_state' = "Err"
    /\ UNCHANGED <<input, line_number, tokens, parsed, lines, error, emitted>>
    /\ UNCHANGED vm_vars

\* the iterator is exhausted and error is not set: Ok(Program { lines })
ReturnOk ==
    /\ parse_state = "parsing"
    /\ line_number = Len(str_lines(input))
    /\ ~error
    /\ parse_state' = "Ok"
    /\ UNCHANGED <<input, line_number, tokens, parsed, lines, error, emitted>>
    /\ UNCHANGED vm_vars

AsmNext ==
    \/ LineFails
    \/ LineEmpty
    \/ LineParsed
    \/ ReturnErr
    \/ ReturnOk

AsmSpec == AsmInit /\ [][AsmNext]_vars

(***************************************************************************)
(* The claims.                                                             *)
(***************************************************************************)
\* the opcode bytes of the table
TableBytes == {Opcode_to_byte(op) : op \in Opcode}

\* the opcode of the table with byte b
OpcodeOf(b) == CHOOSE op \in Opcode : Opcode_to_byte(op) = b

\* C1: when the byte fetched at memory[pc] is none of the 18 opcode bytes, the
\* step of run is a panic that reports that byte and the current pc, and pc,
\* acc, memory and the output are left as they were at the fetch.
C1_UnknownOpcodeIsFatal ==
    [][(status = "running" /\ memory[pc] \notin TableBytes)
        => /\ status' = "panicked"
           /\ panic' = [kind |-> "unknown instruction",
                        args |-> <<memory[pc], pc>>]
           /\ UNCHANGED <<pc, acc, memory, output>>]_vars

\* C1 witness: the byte 0x60 was fetched at address 4 and the run has panicked
\* reporting 0x60 and 4
C1_Witness ==
    /\ status = "panicked"
    /\ panic = [kind |-> "unknown instruction", args |-> <<96, 4>>]
    /\ pc = 4
    /\ memory[4] = 96

\* C2: the only fault of a run is the unknown opcode byte: a machine that was
\* constructed panics only with the unknown-instruction panic, on a byte that
\* is none of the 18 opcode bytes.
C2_OnlyUnknownOpcodeFaults ==
    (status = "panicked" /\ panic.kind # "assertion")
        => (panic.kind = "unknown instruction" /\ memory[pc] \notin TableBytes)

\* C3: print with operand src and len = memory[src] writes exactly the len
\* bytes memory[(src + i) mod 256], i = 1 .. len, and a line break, for every
\* src and len: a string that crosses address 255 goes on at address 0, and
\* len = 0 writes the empty string.  (The bytes are compared as the lossy
\* conversion leaves them, so that only the addressing is in question here.)
C3_PrintWrapsAround ==
    [][Fetch(64)
        => LET src == memory[(pc + 1) % 256]
               len == memory[src]
           IN /\ status' = "running"
              /\ output' # << >>
              /\ output'[Len(output')]
                    = from_utf8_lossy([i \in 1 .. len |-> memory[(src + i) % 256]])
                          \o <<10>>]_vars

\* C4: the bytes run decodes are exactly the 18 pairwise distinct bytes of
\* Opcode::to_byte, and executing an opcode other than jmp, a taken jz and stop
\* at p leaves pc = (p + Opcode::len()) mod 256.
C4_TablesAgree ==
    /\ run_opcodes = TableBytes
    /\ Cardinality(TableBytes) = 18
    /\ Cardinality(Opcode) = 18
    /\ [][(/\ status = "running"
           /\ memory[pc] \in TableBytes \ {32, 80}
           /\ ~(memory[pc] = 33 /\ acc = 0))
            => pc' = (pc + Opcode_len(OpcodeOf(memory[pc]))) % 256]_vars

\* C5: jmp at p sets pc to memory[(p + 1) mod 256]; jz at p does the same when
\* acc = 0 and sets pc to (p + 2) mod 256 otherwise; neither changes acc or
\* memory, and the run goes on.
C5_Jumps ==
    [][/\ Fetch(32)
          => /\ pc' = memory[(pc + 1) % 256]
             /\ UNCHANGED <<acc, memory, status>>
       /\ Fetch(33)
          => /\ pc' = IF acc = 0 THEN memory[(pc + 1) % 256] ELSE (pc + 2) % 256
             /\ UNCHANGED <<acc, memory, status>>]_vars

\* C5 witness: jz at address 255 with acc = 0 has read its target, the byte
\* 0x11 at address 0, and jumped to it
C5_Witness ==
    /\ program = InstrProgram(0, 255, 33, 0, 0)
    /\ status = "running"
    /\ acc = 0
    /\ pc = 17

\* C6: run returns through stop only, with pc at the stop byte and acc, memory
\* and the output as they were when stop was fetched; ldi 5; stop ends with
\* acc = 5, pc = 2 and no output.
C6_StopFrame ==
    [][/\ Fetch(80)
          => /\ status' = "stopped"
             /\ UNCHANGED <<pc, acc, memory, output>>
       /\ status' = "stopped"
          => /\ memory'[pc'] = 80
             /\ program = Scenario1 => (acc' = 5 /\ pc' = 2 /\ output' = << >>)]_vars

\* C6 witness: ldi 5; stop has returned
C6_Witness == program = Scenario1 /\ status = "stopped" /\ acc = 5

\* bit i of the byte a
BitOf(a, i) == (a \div (2 ^ i)) % 2

\* the bitwise AND of two bytes, bit by bit
RefAnd(a, b) ==
    BitOf(a, 0) * BitOf(b, 0) + 2 * BitOf(a, 1) * BitOf(b, 1)
    + 4 * BitOf(a, 2) * BitOf(b, 2) + 8 * BitOf(a, 3) * BitOf(b, 3)
    + 16 * BitOf(a, 4) * BitOf(b, 4) + 32 * BitOf(a, 5) * BitOf(b, 5)
    + 64 * BitOf(a, 6) * BitOf(b, 6) + 128 * BitOf(a, 7) * BitOf(b, 7)

\* the result the ALU opcode with byte op has on acc a and operand value v
RefAlu(op, a, v) ==
    CASE op \in {48, 49} -> (a + v) % 256
      [] op \in {50, 51} -> (a - v) % 256
      [] op = 52 -> a \div 2
      [] op = 53 -> (2 * a) % 256
      [] op \in {54, 55} -> RefAnd(a, v)

\* C7: every ALU opcode sets acc to the reference result modulo 256 and goes
\* on without a fault; the operand value is memory[memory[pc + 1]] for
\* add/sub/and and memory[pc + 1] for addi/subi/andi; addi 255; addi 2 from
\* acc = 0 gives 255 and then 1.
C7_Alu ==
    [][(status = "running" /\ memory[pc] \in 48 .. 55)
        => LET b == memory[(pc + 1) % 256]
               v == IF memory[pc] \in {48, 50, 54} THEN memory[b] ELSE b
           IN /\ acc' = RefAlu(memory[pc], acc, v)
              /\ acc' \in 0 .. 255
              /\ status' = "running"
              /\ program = Scenario2b => acc' = (IF pc = 0 THEN 255 ELSE 1)]_vars

\* C7 witness: addi 255; addi 2; stop has wrapped acc to 1
C7_Witness == program = Scenario2b /\ status = "stopped" /\ acc = 1 /\ pc = 4

\* the run is over
Terminated == status \in {"stopped", "panicked"}

\* C8 as stated: every run of the VM eventually terminates.
C8_AlwaysTerminates == <>Terminated

\* the instruction at pc ends the run: stop, a byte that is no opcode, or a
\* print whose slice bounds are out of order
EndsRun ==
    \/ memory[pc] = 80
    \/ memory[pc] \notin TableBytes
    \/ /\ memory[pc] = 64
       /\ LET src == memory[(pc + 1) % 256] IN
          (src + 1) % 256 > ((src + memory[src]) % 256) + 1

\* C8 as amended: a run ends exactly at a stop, at a byte that is no opcode or
\* at a print whose slice panics, and not every run ends: on the all-zero
\* memory it executes nop forever.
C8_EndsOnlyByStopOrFault ==
    /\ [](program = << >> => ~Terminated)
    /\ [][status = "running" => (Terminated' <=> EndsRun)]_vars

\* C8 witness: on the all-zero memory the run has executed 256 nops and is
\* about to execute the one at address 0 again
C8_Witness ==
    /\ program = << >>
    /\ status = "running"
    /\ pc = 255
    /\ memory[255] = 0
    /\ memory[0] = 0

\* C9: from_program on n <= 256 bytes gives pc = 0, acc = 0, the program in
\* memory[0 .. n-1] and 0 in memory[n .. 255]; a longer program fails the
\* assertion and no machine is created.
C9_FromProgram ==
    [][status = "start"
        => IF Len(program) <= 256
           THEN /\ status' = "running"
                /\ pc' = 0
                /\ acc' = 0
                /\ DOMAIN memory' = 0 .. 255
                /\ \A i \in 0 .. 255 :
                      memory'[i] = IF i < Len(program) THEN program[i + 1] ELSE 0
           ELSE /\ status' = "panicked"
                /\ panic'.kind = "assertion"
                /\ memory' = NoMemory]_vars

\* C9 witness: a program of exactly 256 bytes has been loaded
C9_Witness ==
    /\ Len(program) = 256
    /\ status = "running"
    /\ memory[255] = program[256]
    /\ program[256] # 0

\* the bytes memory[src+1 .. src+len]
StringAt(src, len) == [i \in 1 .. len |-> memory[src + i]]

\* C10 as stated: print with len >= 1 and src + len <= 255 writes exactly the
\* bytes memory[src+1 .. src+len] and a line break, leaves acc and memory
\* unchanged and advances pc by 2.
C10_PrintExactBytes ==
    [][(Fetch(64) /\ memory[memory[(pc + 1) % 256]] >= 1
          /\ memory[(pc + 1) % 256] + memory[memory[(pc + 1) % 256]] <= 255)
        => LET src == memory[(pc + 1) % 256]
               len == memory[src]
           IN /\ output' # << >>
              /\ output'[Len(output')] = StringAt(src, len) \o <<10>>
              /\ UNCHANGED <<acc, memory>>
              /\ pc' = (pc + 2) % 256]_vars

\* C10 as amended: print with len >= 1 and src + len <= 255 writes the bytes
\* memory[src+1 .. src+len] with every invalid UTF-8 sequence replaced by
\* U+FFFD (so exactly those bytes when all of them are ASCII) and a line
\* break, leaves acc and memory unchanged and advances pc by 2; the string
\* [2, 'H', 'I'] at 10 prints HI and the run continues at pc = 2.
C10_PrintLossyBytes ==
    [][(Fetch(64) /\ memory[memory[(pc + 1) % 256]] >= 1
          /\ memory[(pc + 1) % 256] + memory[memory[(pc + 1) % 256]] <= 255)
        => LET src == memory[(pc + 1) % 256]
               len == memory[src]
               text == output'[Len(output')]
           IN /\ output' # << >>
              /\ text = from_utf8_lossy(StringAt(src, len)) \o <<10>>
              /\ (\A i \in 1 .. len : memory[src + i] < 128)
                    => text = StringAt(src, len) \o <<10>>
              /\ program = Scenario3
                    => (text = <<72, 73, 10>> /\ pc' = 2 /\ output' = <<text>>)
              /\ UNCHANGED <<acc, memory>>
              /\ status' = "running"
              /\ pc' = (pc + 2) % 256]_vars

\* C10 witness: the string "HI" at address 10 has been printed and the run
\* continues at pc = 2
C10_Witness ==
    /\ program = Scenario3
    /\ output = <<(<<72, 73, 10>>)>>
    /\ pc = 2
    /\ status = "running"

\* C20: ld, ldi, st, sti and mov at address p read their operand bytes at
\* (p + 1) mod 256 and (p + 2) mod 256: ld sets acc to memory[memory[p + 1]],
\* ldi sets acc to memory[p + 1], st stores acc at memory[p + 1], sti stores
\* the byte memory[p + 1] at address memory[p + 2], mov stores
\* memory[memory[p + 1]] at address memory[p + 2]; also for p = 254 and 255,
\* where the operands come from addresses 0 and 1.
C20_DataTransfer ==
    [][(status = "running" /\ memory[pc] \in 16 .. 20)
        => LET x == memory[(pc + 1) % 256]
               y == memory[(pc + 2) % 256]
           IN /\ memory[pc] = 16 => acc' = memory[x] /\ memory' = memory
              /\ memory[pc] = 17 => acc' = x /\ memory' = memory
              /\ memory[pc] = 18
                 => /\ acc' = acc
                    /\ memory' = [i \in 0 .. 255 |->
                                     IF i = x THEN acc ELSE memory[i]]
              /\ memory[pc] = 19
                 => /\ acc' = acc
                    /\ memory' = [i \in 0 .. 255 |->
                                     IF i = y THEN x ELSE memory[i]]
              /\ memory[pc] = 20
                 => /\ acc' = acc
                    /\ memory' = [i \in 0 .. 255 |->
                                     IF i = y THEN memory[x] ELSE memory[i]]]_vars

\* C20 witness: sti at address 254 has taken its value 10 from address 255
\* and its destination 17 from address 0, and the run goes on at address 1
C20_Witness ==
    /\ program = InstrProgram(3, 254, 19, 10, 0)
    /\ status = "running"
    /\ pc = 1
    /\ memory[17] = 10
    /\ memory[255] = 10

\* the number of lines of a text: one per line break, and one more for what
\* follows the last line break
RefLineCount(text) ==
    Cardinality({i \in DOMAIN text : text[i] = "\n"})
    + (IF text # << >> /\ text[Len(text)] # "\n" THEN 1 ELSE 0)

\* what tokenize and then parse_line make of a line: the first error, if any
FirstResult(text) ==
    IF tokenize(text).kind = "Err" THEN tokenize(text)
    ELSE parse_line(tokenize(text).value)

\* the call of parse has returned
Returned == parse_state \in {"Ok", "Err"}

\* C11: parse goes through every line of the input whatever the earlier
\* lines gave; each failing line has exactly one diagnostic emitted, its
\* first error, with the 0-based index of the line; the diagnostics are
\* emitted in the order of the lines; and parse returns Err exactly when at
\* least one line failed.
C11_ParseAllOrNothing ==
    Returned =>
        LET ls == str_lines(input)
            failing == {k \in 1 .. Len(ls) : FirstResult(ls[k].text).kind = "Err"}
        IN /\ line_number = RefLineCount(input)
           /\ Len(ls) = RefLineCount(input)
           /\ Len(emitted) = Cardinality(failing)
           /\ \A k \in failing :
                \E i \in DOMAIN emitted :
                    /\ emitted[i].line_number = k - 1
                    /\ emitted[i].diag = FirstResult(ls[k].text).diag
                    /\ emitted[i].line = ls[k].text
           /\ \A i, j \in DOMAIN emitted :
                i < j => emitted[i].line_number < emitted[j].line_number
           /\ (parse_state = "Err") <=> (failing # {})

\* C11 witness: of three lines the first failed in the lexer and the third
\* in the line parser, both were reported and the second one was collected
C11_Witness ==
    /\ parse_state = "Err"
    /\ RefLineCount(input) = 3
    /\ Len(emitted) = 2
    /\ emitted[1].line_number = 0
    /\ emitted[1].diag.msg = "invalid token start character"
    /\ emitted[2].line_number = 2
    /\ emitted[2].diag.msg = "invalid directive name '{}'"
    /\ Len(lines) = 1

\* the characters of text whose bytes are the bytes lo .. hi - 1 of text, when
\* lo and hi fall between characters (<< >> stands for no such characters)
BytesOf(text, lo, hi) ==
    IF \E a \in 1 .. Len(text) + 1, b \in 0 .. Len(text) :
          str_len(SubSeq(text, 1, a - 1)) = lo /\ str_len(SubSeq(text, 1, b)) = hi
    THEN LET a == CHOOSE a \in 1 .. Len(text) + 1 :
                     str_len(SubSeq(text, 1, a - 1)) = lo
             b == CHOOSE b \in 0 .. Len(text) : str_len(SubSeq(text, 1, b)) = hi
         IN SubSeq(text, a, b)
    ELSE << >>

\* the lines of the input that yield at least one token, in source order
TokenLines(text) ==
    SelectSeq(str_lines(text),
              LAMBDA l : tokenize(l.text).kind = "Ok" /\ tokenize(l.text).value # << >>)

\* the bytes lo .. hi - 1 of text are a whole line of it: a line break or the
\* start of the text before them, a line ending or the end of the text after
\* them, and no line break among them
IsLineRange(text, lo, hi) ==
    \E a \in 1 .. Len(text), b \in 1 .. Len(text) :
        /\ a <= b
        /\ str_len(SubSeq(text, 1, a - 1)) = lo
        /\ str_len(SubSeq(text, 1, b)) = hi
        /\ a = 1 \/ text[a - 1] = "\n"
        /\ \/ b = Len(text)
           \/ text[b + 1] = "\n"
           \/ b + 2 <= Len(text) /\ text[b + 1] = "\r" /\ text[b + 2] = "\n"
        /\ \A i \in a .. b : text[i] # "\n"

\* C12: when parse succeeds, Program.lines has one entry for each line of the
\* input that yields at least one token, in source order, and none for blank
\* and comment-only lines; the span of an entry is the byte range of its line
\* in the input, from the start of the line for the length of the line; so
\* the spans are strictly increasing and disjoint.
C12_ProgramLines ==
    parse_state = "Ok" =>
        LET ls == TokenLines(input)
        IN /\ Len(lines) = Len(ls)
           /\ \A i \in DOMAIN lines :
                /\ lines[i].data = parse_line(tokenize(ls[i].text).value).value
                /\ IsLineRange(input, lines[i].span.lo, lines[i].span.hi)
                /\ BytesOf(input, lines[i].span.lo, lines[i].span.hi) = ls[i].text
                /\ lines[i].span.hi - lines[i].span.lo = str_len(ls[i].text)
                /\ lines[i].span.lo < lines[i].span.hi
           /\ \A i \in 1 .. Len(lines) - 1 : lines[i].span.hi < lines[i + 1].span.lo

\* C12 witness: of three lines ended by \r\n, a label with a two-byte
\* letter, a comment and an instruction, the first and the third have
\* entries, with the byte ranges 0 .. 3 and 11 .. 15
C12_Witness ==
    /\ parse_state = "Ok"
    /\ RefLineCount(input) = 3
    /\ Len(lines) = 2
    /\ lines[1].data.kind = "Label"
    /\ lines[1].span = [lo |-> 0, hi |-> 4]
    /\ lines[2].data.kind = "Instruction"
    /\ lines[2].span = [lo |-> 11, hi |-> 16]

\* the line the closure ran on last
LastLine == str_lines(input)[line_number].text

\* a line has gone through the closure
LineDone == line_number > 0

\* the value of a hexadecimal digit
RefDigit(c) ==
    CASE c \in {"0"} -> 0 [] c \in {"1"} -> 1 [] c \in {"2"} -> 2
      [] c \in {"3"} -> 3 [] c \in {"4"} -> 4 [] c \in {"5"} -> 5
      [] c \in {"6"} -> 6 [] c \in {"7"} -> 7 [] c \in {"8"} -> 8
      [] c \in {"9"} -> 9 [] c \in {"a", "A"} -> 10 [] c \in {"b", "B"} -> 11
      [] c \in {"c", "C"} -> 12 [] c \in {"d", "D"} -> 13
      [] c \in {"e", "E"} -> 14 [] c \in {"f", "F"} -> 15

RefHexDigits ==
    {"0", "1", "2", "3", "4", "5", "6", "7", "8", "9", "a", "b", "c", "d",
     "e", "f", "A", "B", "C", "D", "E", "F"}

\* the number a run of hexadecimal digits denotes
RECURSIVE RefHexValue(_)
RefHexValue(ds) ==
    IF ds = << >> THEN 0
    ELSE 16 * RefHexValue(SubSeq(ds, 1, Len(ds) - 1)) + RefDigit(ds[Len(ds)])

\* the places of a line where a literal with at least one digit starts and
\* the lexer gets to: a $ before a digit, with no comment and no lexer error
\* before it
LiteralStarts(t) ==
    {k \in 1 .. Len(t) - 1 :
        /\ t[k] = "$"
        /\ t[k + 1] \in RefHexDigits
        /\ \A j \in 1 .. k - 1 : t[j] # ";"
        /\ tokenize(SubSeq(t, 1, k - 1)).kind = "Ok"}

\* the last digit of the literal that starts at k
LiteralLast(t, k) ==
    CHOOSE e \in k + 1 .. Len(t) :
        /\ \A j \in k + 1 .. e : t[j] \in RefHexDigits
        /\ e = Len(t) \/ t[e + 1] \notin RefHexDigits

\* C13: a $ followed by one or more hex digits gives Token::Literal(v) with v
\* the value of the digit run when that value is at most 0xFF, however many
\* digits there are, and fails when the value is above 0xFF, with a
\* diagnostic whose span covers the whole literal and whose notes are the
\* valid range and then the numeric base.
C13_HexLiteral ==
    LineDone =>
        \A k \in LiteralStarts(LastLine) :
            LET t == LastLine
                e == LiteralLast(t, k)
                v == RefHexValue(SubSeq(t, k + 1, e))
                lo == str_len(SubSeq(t, 1, k - 1))
                hi == str_len(SubSeq(t, 1, e))
            IN IF v <= 255
               THEN IF tokens.kind = "Ok"
                    THEN \E i \in DOMAIN tokens.value :
                            /\ tokens.value[i].data = Token_Literal(v)
                            /\ tokens.value[i].span = [lo |-> lo, hi |-> hi]
                    ELSE tokens.diag.span.lo >= hi
               ELSE /\ tokens.kind = "Err"
                    /\ tokens.diag.span = [lo |-> lo, hi |-> hi]
                    /\ tokens.diag.msg = "this literal's value overflows u8"
                    /\ tokens.diag.notes =
                         <<"only values between 0 and 255 ($FF) are allowed",
                           "numbers are specified in hexadecimal">>

\* C13 witness: the line g$0FF$100 has given the overflow diagnostic for
\* $100, bytes 5 to 8, after the literal $0FF of value 255
C13_Witness ==
    /\ LineDone
    /\ LastLine = <<"g", "$", "0", "F", "F", "$", "1", "0", "0">>
    /\ LiteralStarts(LastLine) = {2, 6}
    /\ RefHexValue(<<"0", "F", "F">>) = 255
    /\ tokens.kind = "Err"
    /\ tokens.diag.span = [lo |-> 5, hi |-> 9]

\* the opcode of a mnemonic of the table
MnemonicOpcode(name) ==
    CASE name = <<"n", "o", "p">> -> "Nop"
      [] name = <<"l", "d">> -> "Ld"
      [] name = <<"l", "d", "i">> -> "Ldi"
      [] name = <<"s", "t">> -> "St"
      [] name = <<"s", "t", "i">> -> "Sti"
      [] name = <<"m", "o", "v">> -> "Mov"
      [] name = <<"j", "m", "p">> -> "Jmp"
      [] name = <<"j", "z">> -> "Jz"
      [] name = <<"a", "d", "d">> -> "Add"
      [] name = <<"a", "d", "d", "i">> -> "Addi"
      [] name = <<"s", "u", "b">> -> "Sub"
      [] name = <<"s", "u", "b", "i">> -> "Subi"
      [] name = <<"s", "h", "r">> -> "Shr"
      [] name = <<"s", "h", "l">> -> "Shl"
      [] name = <<"a", "n", "d">> -> "And"
      [] name = <<"a", "n", "d", "i">> -> "Andi"
      [] name = <<"p", "r", "i", "n", "t">> -> "Print"
      [] name = <<"s", "t", "o", "p">> -> "Stop"
      [] OTHER -> "none"

\* the Arg an operand token becomes: Arg::Label for an Ident, Arg::Value for
\* a Literal
RefArg(token) ==
    IF token.type = "Ident" THEN [kind |-> "Label", name |-> token.name, value |-> 0]
    ELSE [kind |-> "Value", name |-> << >>, value |-> token.value]

\* the closure ran parse_line on the tokens of the last line
LineParsedFrom == LineDone /\ tokens.kind = "Ok"

\* C14: for a line whose first token is Ident(name), parse_line resolves name
\* to an opcode of the table, takes exactly that opcode's number of operand
\* tokens (an Ident becomes Arg::Label, a Literal Arg::Value), requires the
\* end of the line after them and returns the matching Instruction variant;
\* an unknown mnemonic, a missing operand or a trailing token gives a Diag
\* and no Line.
C14_InstructionLine ==
    (/\ LineParsedFrom
     /\ tokens.value # << >>
     /\ tokens.value[1].data.type = "Ident")
    => LET toks == tokens.value
           op == MnemonicOpcode(toks[1].data.name)
       IN IF /\ op \in Opcode
             /\ Len(toks) = Opcode_len(op)
             /\ \A i \in 2 .. Len(toks) : toks[i].data.type \in {"Ident", "Literal"}
          THEN /\ parsed.kind = "Ok"
               /\ parsed.value.kind = "Instruction"
               /\ Instruction_opcode(parsed.value.value.variant) = op
               /\ parsed.value.value.args
                    = [i \in 1 .. Len(toks) - 1 |-> RefArg(toks[i + 1])]
          ELSE parsed.kind = "Err"

\* parse_line has returned a Diag for the last line
LineDiag == LineParsedFrom /\ parsed.kind = "Err"

\* the line ran out of tokens: it is a proper beginning of a label or of a
\* byte directive, a lone `.` or `.byte`
RanOut(toks) ==
    \/ Len(toks) = 1 /\ toks[1].data.type = "Dot"
    \/ /\ Len(toks) = 2
       /\ toks[1].data.type = "Dot"
       /\ toks[2].data = Token_Ident(<<"b", "y", "t", "e">>)

\* the Diag d is anchored at a token of the line, the one its message names
AtOffendingToken(d, toks) ==
    \E i \in DOMAIN toks :
        /\ d.span = toks[i].span
        /\ d.arg = toks[i].data \/ d.arg = StrArg(toks[i].data.name)

\* C15 as stated: a Diag of parse_line is anchored at the span of the
\* offending token when there is one and, when the line ran out of tokens, at
\* a span of no width one byte after the end of the previous token.
C15_ZeroWidthPastEnd ==
    LineDiag =>
        LET toks == tokens.value
            last == toks[Len(toks)].span
        IN IF RanOut(toks)
           THEN parsed.diag.span = [lo |-> last.hi + 1, hi |-> last.hi + 1]
           ELSE AtOffendingToken(parsed.diag, toks)

\* C15, amended: a Diag of parse_line is anchored at the span of the
\* offending token when there is one and, when the line ran out of tokens, at
\* the one byte that follows the previous token: the span from the end of
\* that token to one byte after it, under which emit draws one caret.
C15_OneByteAtEnd ==
    /\ LineDiag =>
        LET toks == tokens.value
            last == toks[Len(toks)].span
        IN IF RanOut(toks)
           THEN parsed.diag.span = [lo |-> last.hi, hi |-> last.hi + 1]
           ELSE AtOffendingToken(parsed.diag, toks)
    /\ \A i \in DOMAIN emitted :
         (emitted[i].diag.msg \in {"unexpected end of line, expected ident",
                                   "unexpected end of line, expected literal"})
            => emitted[i].underline = 1

\* C15 witness: the line `.byte ;` ran out of tokens after byte, which ends
\* at byte 5, and the Diag is anchored at bytes 5 to 6
C15_Witness ==
    /\ LineDiag
    /\ LastLine = <<".", "b", "y", "t", "e", " ", ";">>
    /\ RanOut(tokens.value)
    /\ parsed.diag.span = [lo |-> 5, hi |-> 6]
    /\ emitted[1].before_underline = 5

\* the first token of the last line is a Dot
DotLine ==
    /\ LineParsedFrom
    /\ tokens.value # << >>
    /\ tokens.value[1].data.type = "Dot"

\* C16: for tokens that start with Dot: when the second token is not an
\* Ident, parse_line fails with an 'expected ident' diagnostic; exactly Dot,
\* Ident(n), Colon gives Line::Label(n) for every name n, also for a
\* directive name such as byte; a further token after Dot, Ident(n), Colon
\* gives a trailing-token diagnostic at the span of that token; and when the
\* third token is absent or not a Colon the line is handled as the directive
\* named n.
C16_LabelOrDirective ==
    DotLine =>
        LET toks == tokens.value
        IN IF Len(toks) < 2 \/ toks[2].data.type # "Ident"
           THEN /\ parsed.kind = "Err"
                /\ parsed.diag.msg \in
                     {"unexpected '{:?}' token, expected ident",
                      "unexpected end of line, expected ident"}
           ELSE IF Len(toks) >= 3 /\ toks[3].data.type = "Colon"
           THEN IF Len(toks) = 3
                THEN /\ parsed.kind = "Ok"
                     /\ parsed.value.kind = "Label"
                     /\ parsed.value.value = toks[2].data.name
                ELSE /\ parsed.kind = "Err"
                     /\ parsed.diag.span = toks[4].span
                     /\ parsed.diag.arg = toks[4].data
                     /\ parsed.diag.msg =
                          "unexpected token '{:?}', expected end of line after label"
           ELSE LET directive == parse_directive(toks[2].data.name, toks)
                IN IF directive.kind = "Err"
                   THEN parsed.kind = "Err" /\ parsed.diag = directive.diag
                   ELSE /\ parsed.kind = "Ok"
                        /\ parsed.value.kind = "Directive"
                        /\ parsed.value.value = directive.value

\* C16 witness: the line `.byte:` has given the label byte
C16_Witness ==
    /\ DotLine
    /\ LastLine = <<".", "b", "y", "t", "e", ":">>
    /\ parsed.kind = "Ok"
    /\ parsed.value.kind = "Label"
    /\ parsed.value.value = <<"b", "y", "t", "e">>

\* the last line went to parse_directive: Dot, an Ident, and no Colon next
DirectiveLine ==
    /\ DotLine
    /\ Len(tokens.value) >= 2
    /\ tokens.value[2].data.type = "Ident"
    /\ Len(tokens.value) >= 3 => tokens.value[3].data.type # "Colon"

\* C17: the directive byte succeeds with Directive::Byte(v) exactly when the
\* tokens after the name are one Literal(v) and nothing else; a missing
\* literal, a token that is no literal and a trailing token are Diags; every
\* other directive name fails with an 'invalid directive name' diagnostic at
\* the span of the name token, whatever follows it.
C17_Directive ==
    DirectiveLine =>
        LET toks == tokens.value
        IN IF toks[2].data.name = <<"b", "y", "t", "e">>
           THEN IF Len(toks) = 3 /\ toks[3].data.type = "Literal"
                THEN /\ parsed.kind = "Ok"
                     /\ parsed.value.kind = "Directive"
                     /\ parsed.value.value.kind = "Byte"
                     /\ parsed.value.value.value = toks[3].data.value
                ELSE parsed.kind = "Err"
           ELSE /\ parsed.kind = "Err"
                /\ parsed.diag.msg = "invalid directive name '{}'"
                /\ parsed.diag.arg.name = toks[2].data.name
                /\ parsed.diag.span = toks[2].span

\* C17 witness: the line `.byte $FF` has given Directive::Byte(255)
C17_Witness ==
    /\ DirectiveLine
    /\ LastLine = <<".", "b", "y", "t", "e", " ", "$", "F", "F">>
    /\ parsed.kind = "Ok"
    /\ parsed.value.kind = "Directive"
    /\ parsed.value.value = [kind |-> "Byte", value |-> 255]

\* C18: every Instruction variant has as many operand fields as its opcode
\* has operands in the table, Opcode::len() of Instruction::opcode() minus 1:
\* none for nop, shr, shl and stop, 2 for sti and mov, 1 for all others; and
\* Instruction::opcode maps the 18 variants one-to-one onto the 18 opcodes.
\* (The tables are those of the assembler, in every state of a call of parse.)
C18_InstructionFields ==
    parse_state # "idle" =>
        /\ \A v \in Instruction :
            /\ Len(Instruction_fields(v)) = Opcode_len(Instruction_opcode(v)) - 1
            /\ Len(Instruction_fields(v)) =
                 (IF Instruction_opcode(v) \in {"Nop", "Shr", "Shl", "Stop"} THEN 0
                  ELSE IF Instruction_opcode(v) \in {"Sti", "Mov"} THEN 2
                  ELSE 1)
        /\ Cardinality(Instruction) = 18
        /\ Cardinality(Opcode) = 18
        /\ {Instruction_opcode(v) : v \in Instruction} = Opcode
        /\ \A v, w \in Instruction :
            Instruction_opcode(v) = Instruction_opcode(w) => v = w

\* the characters cs are the text of the token
IsTextOf(cs, token) ==
    CASE token.type = "Dot" -> cs = <<".">>
      [] token.type = "Colon" -> cs = <<":">>
      [] token.type = "BracketOpen" -> cs = <<"[">>
      [] token.type = "BracketClose" -> cs = <<"]">>
      [] token.type = "Ident" -> cs = token.name /\ cs # << >>
      [] token.type = "Literal" ->
            /\ Len(cs) >= 2
            /\ cs[1] = "$"
            /\ \A i \in 2 .. Len(cs) : cs[i] \in RefHexDigits
            /\ RefHexValue(SubSeq(cs, 2, Len(cs))) = token.value

\* the bytes a character takes in UTF-8
RefWidth(c) == CASE c = "U+00E9" -> 2 [] c = "U+20AC" -> 3 [] OTHER -> 1

RECURSIVE RefByteLength(_)
RefByteLength(cs) ==
    IF cs = << >> THEN 0 ELSE RefWidth(cs[1]) + RefByteLength(Tail(cs))

\* C19: on every line that tokenize accepts, the span of each token is the
\* byte range of the token's text in the line, with lo < hi <= the length of
\* the line and hi - lo the length of the text in bytes, and the spans of
\* successive tokens are in strictly increasing order without overlap.
C19_TokenSpans ==
    LineParsedFrom =>
        LET toks == tokens.value
            t == LastLine
        IN /\ \A i \in DOMAIN toks :
                LET cs == BytesOf(t, toks[i].span.lo, toks[i].span.hi)
                IN /\ toks[i].span.lo < toks[i].span.hi
                   /\ toks[i].span.hi <= RefByteLength(t)
                   /\ IsTextOf(cs, toks[i].data)
                   /\ toks[i].span.hi - toks[i].span.lo = RefByteLength(cs)
           /\ \A i \in 1 .. Len(toks) - 1 :
                /\ toks[i].span.hi <= toks[i + 1].span.lo
                /\ toks[i].span.lo < toks[i + 1].span.lo

\* C19 witness: in a line of a name with two two-byte letters, a tab and a
\* literal, the name has bytes 0 to 4 and the literal bytes 6 to 8
C19_Witness ==
    /\ LineParsedFrom
    /\ LastLine = <<"U+00E9", "t", "U+00E9", "\t", "$", "F", "F">>
    /\ Len(tokens.value) = 2
    /\ tokens.value[1].span = [lo |-> 0, hi |-> 5]
    /\ tokens.value[2].span = [lo |-> 6, hi |-> 9]

\* the places of a line where a $ without a digit after it stands and the
\* lexer gets to: the end of the line or a character that is no hex digit
\* comes next, and there is no comment and no lexer error before it
BareDollars(t) ==
    {k \in 1 .. Len(t) :
        /\ t[k] = "$"
        /\ k = Len(t) \/ t[k + 1] \notin RefHexDigits
        /\ \A j \in 1 .. k - 1 : t[j] # ";"
        /\ tokenize(SubSeq(t, 1, k - 1)).kind = "Ok"}

RefBlank == {" ", "\t", "\r"}

\* the text of a line before its first `;`, the whole line when it has none
BeforeComment(t) ==
    IF \E k \in DOMAIN t : t[k] = ";"
    THEN SubSeq(t, 1, (CHOOSE k \in DOMAIN t :
                          t[k] = ";" /\ \A j \in 1 .. k - 1 : t[j] # ";") - 1)
    ELSE t

\* the last line has a comment
HasComment == LineDone /\ \E k \in DOMAIN LastLine : LastLine[k] = ";"

\* C22: a `;` ends the lexing of the line: for a text X without `;` and any
\* text Y, tokenize of X;Y is tokenize of X, the same tokens with the same
\* spans or the same error, so the text after `;` gives no token and no
\* error; and a line of white space and a comment at most gives no tokens,
\* and parse_line gives None for it.
C22_CommentEndsLine ==
    LineDone =>
        LET x == BeforeComment(LastLine)
        IN /\ HasComment
              => /\ tokens = tokenize(x)
                 /\ tokens.kind = "Ok"
                    => \A i \in DOMAIN tokens.value :
                          tokens.value[i].span.hi <= RefByteLength(x)
                 /\ tokens.kind = "Err" => tokens.diag.span.hi <= RefByteLength(x)
           /\ (\A i \in DOMAIN x : x[i] \in RefBlank)
              => /\ tokens.kind = "Ok"
                 /\ tokens.value = << >>
                 /\ parsed.kind = "Ok"
                 /\ parsed.value = [kind |-> "None"]

\* C22 witness: the line x9;$100 has given the one token x9, and nothing for
\* the literal in the comment
C22_Witness ==
    /\ HasComment
    /\ LastLine = <<"x", "9", ";", "$", "1", "0", "0">>
    /\ tokens.kind = "Ok"
    /\ Len(tokens.value) = 1
    /\ tokens.value[1].span = [lo |-> 0, hi |-> 2]

\* the opcode bytes that may write memory, that may write acc, and that may
\* write neither
MemoryWriters == {18, 19, 20}

AccWriters == {16, 17, 48, 49, 50, 51, 52, 53, 54, 55}

NoWriters == {0, 32, 33, 64, 80}

\* C23: in every step of the VM, memory is written only by st, sti and mov,
\* and each of them changes the one cell at its destination address at most;
\* acc is written only by ld, ldi, add, addi, sub, subi, shr, shl, and, andi;
\* nop, jmp, jz, print and stop change neither acc nor memory.
C23_Frame ==
    [][status = "running"
        => LET op == memory[pc]
               dst == IF op = 18 THEN memory[(pc + 1) % 256]
                      ELSE memory[(pc + 2) % 256]
           IN /\ memory' # memory
                 => /\ op \in MemoryWriters
                    /\ \A i \in 0 .. 255 : i # dst => memory'[i] = memory[i]
              /\ acc' # acc => op \in AccWriters
              /\ op \in NoWriters => acc' = acc /\ memory' = memory
              /\ op \in MemoryWriters => acc' = acc
              /\ op \in AccWriters => memory' = memory]_vars

\* C23 witness: mov at address 4 has copied the byte 17 of address 0 to
\* address 20, and nothing else has changed
C23_Witness ==
    /\ program = InstrProgram(3, 4, 20, 0, 20)
    /\ status = "running"
    /\ pc = 7
    /\ acc = 3
    /\ memory = [InstrCells(3, 4, 20, 0, 20) EXCEPT ![20] = 17]

\* the messages of a Diag for a line that ran out of tokens
EndOfLineMessages ==
    {"unexpected end of line, expected ident",
     "unexpected end of line, expected literal"}

\* C24: parse_line is total on token sequences: it returns Ok(None) exactly
\* for the empty sequence, and a Line or a Diag for every other one, without
\* an index out of bounds: the token before the end of the line, by which an
\* 'unexpected end of line' diagnostic is placed, always exists; and a first
\* token that is neither Dot nor Ident gives a Diag at the span of that token
\* with the note "expected ident or '.'".
C24_ParseLineTotal ==
    LineParsedFrom =>
        LET toks == tokens.value
        IN /\ parsed.kind \in {"Ok", "Err"}
           /\ (parsed.kind = "Ok" /\ parsed.value = [kind |-> "None"])
                <=> toks = << >>
           /\ (parsed.kind = "Ok" /\ toks # << >>)
                => parsed.value.kind \in {"Label", "Directive", "Instruction"}
           /\ (parsed.kind = "Err" /\ parsed.diag.msg \in EndOfLineMessages)
                => /\ Len(toks) >= 1
                   /\ parsed.diag.span.lo = toks[Len(toks)].span.hi
                   /\ \A i \in DOMAIN toks :
                        toks[i].span.hi <= parsed.diag.span.lo
           /\ (toks # << >> /\ toks[1].data.type \notin {"Dot", "Ident"})
                => /\ parsed.kind = "Err"
                   /\ parsed.diag.span = toks[1].span
                   /\ parsed.diag.arg = toks[1].data
                   /\ parsed.diag.notes = <<"expected ident or '.'">>

\* C24 witness: the line ]foo starts with a bracket, and the Diag is at the
\* bracket, byte 0, with the note
C24_Witness ==
    /\ LineParsedFrom
    /\ LastLine = <<"]", "f", "o", "o">>
    /\ parsed.kind = "Err"
    /\ parsed.diag.span = [lo |-> 0, hi |-> 1]
    /\ parsed.diag.notes = <<"expected ident or '.'">>

============================================================================
